---- MODULE Spec2Model ----
(***************************************************************************)
(* Model of hw-intro/words/main.c: the word-count driver main(), the two   *)
(* scanners num_words() and count_words(), and the comparator              *)
(* wordcount_less().  The table operations declared in word_count.h        *)
(* (init_words, add_word, wordcount_sort, fprint_words) are not part of    *)
(* the sources at hand; they are modelled from the specification.          *)
(*                                                                         *)
(* A byte is its code (0..255), a stream is a sequence of bytes, a C       *)
(* string is the sequence of bytes before its terminator.                  *)
(***************************************************************************)
EXTENDS Integers, Sequences, FiniteSets, TLC

VARIABLES
  pc,           \* position of the running program
  frame,        \* call site the running scanner returns to
  count_mode,   \* main: bool count_mode
  freq_mode,    \* main: bool freq_mode
  last_flag,    \* history: the last mode flag getopt_long returned
  prev_flag,    \* history: the mode flag returned before the last one
  files,        \* argv[optind..argc-1]: a stream, or NoFile when fopen fails
  stdin_data,   \* the bytes waiting on standard input
  i,            \* main: loop index, counted from optind (first file is 1)
  infile,       \* the FILE* in use: NULL, STDIN or FileH(k)
  fpos,         \* read position of infile
  opened,       \* the file arguments currently open
  attempts,     \* history: the file arguments fopen was called on
  drained,      \* history: the streams on which fgetc has returned EOF
  total_words,  \* main: int total_words
  word_counts,  \* the global table, a sequence of [word, count]
  wclist,       \* count_words: its first argument
  num_words,    \* num_words: int num_words
  in_word,      \* num_words: int in_word
  word_length,  \* num_words: int word_length
  index,        \* count_words: int index
  word,         \* count_words: char word[MAX_WORD_LEN + 1]
  ret,          \* the value the last scanner call returned
  calls,        \* history: the strings passed to add_word
  sorts,        \* history: the tables passed to wordcount_sort, as they were
  err,          \* stderr: the arguments perror reported
  out           \* stdout: the lines printed

vars == <<pc, frame, count_mode, freq_mode, last_flag, prev_flag, files,
          stdin_data, i, infile, fpos, opened, attempts, drained, total_words,
          word_counts, wclist, num_words, in_word, word_length, index, word,
          ret, calls, sorts, err, out>>

-----------------------------------------------------------------------------
(* Constants of the program and of the C library.                          *)

MAX_WORD_LEN == 64

\* handles: the null pointer, stdin, the k-th file argument, &word_counts
NULL == <<>>
STDIN == <<"stdin">>
FileH(k) == <<"file", k>>
WORD_COUNTS == <<"word_counts">>
\* a file argument: fopen succeeds on it and yields data, or fails
File(s) == [ok |-> TRUE, data |-> s]
NoFile == [ok |-> FALSE, data |-> <<>>]
\* an array element never written
UNINIT == "indeterminate"
NUL == 0

-----------------------------------------------------------------------------
(* Bounds of the model.                                                    *)

\* file arguments of one run
MaxFiles == 2
\* bytes of one run, standard input and all files together
MaxBytes == 3
\* pieces of a stream handed to a scanner called on its own
MaxChunks == 4

-----------------------------------------------------------------------------
(* Text helpers: the byte codes of a literal.                              *)

Upper == "ABCDEFGHIJKLMNOPQRSTUVWXYZ"
Lower == "abcdefghijklmnopqrstuvwxyz"
Digits == "0123456789"

PosIn(ch, s) == CHOOSE k \in 1..Len(s) : SubSeq(s, k, k) = ch
IsIn(ch, s) == \E k \in 1..Len(s) : SubSeq(s, k, k) = ch

Ord(ch) ==
  IF IsIn(ch, Upper) THEN 64 + PosIn(ch, Upper)
  ELSE IF IsIn(ch, Lower) THEN 96 + PosIn(ch, Lower)
  ELSE IF IsIn(ch, Digits) THEN 47 + PosIn(ch, Digits)
  ELSE 32

Bytes(s) == [k \in 1..Len(s) |-> Ord(SubSeq(s, k, k))]

Repeat(c, n) == [k \in 1..n |-> c]

-----------------------------------------------------------------------------
(* <ctype.h> in the "C" locale (main never calls setlocale).               *)

isalpha(c) == (c >= 65 /\ c <= 90) \/ (c >= 97 /\ c <= 122)

tolower(c) == IF c >= 65 /\ c <= 90 THEN c + 32 ELSE c

\* strcmp(s, t) < 0: byte-wise, a proper prefix sorts first
RECURSIVE StrLess(_, _)
StrLess(s, t) ==
  IF t = <<>> THEN FALSE
  ELSE IF s = <<>> THEN TRUE
  ELSE IF Head(s) # Head(t) THEN Head(s) < Head(t)
  ELSE StrLess(Tail(s), Tail(t))

\* the C string held in a char array: the bytes before the first NUL
CString(buf) ==
  LET end == CHOOSE k \in 1..Len(buf) :
               buf[k] = NUL /\ \A j \in 1..(k - 1) : buf[j] # NUL
  IN  SubSeq(buf, 1, end - 1)

-----------------------------------------------------------------------------
(* wordcount_less: ascending count, then ascending strcmp.                 *)

\* the tie-break on the word left out
wordcount_less_CountOnly(wc1, wc2) == wc1.count < wc2.count

\* the tie-break with the operands of strcmp exchanged
wordcount_less_WordDescending(wc1, wc2) ==
  IF wc1.count = wc2.count
  THEN StrLess(wc2.word, wc1.word)
  ELSE wc1.count < wc2.count

wordcount_less(wc1, wc2) ==
  IF wc1.count = wc2.count
  THEN StrLess(wc1.word, wc2.word)
  ELSE wc1.count < wc2.count

-----------------------------------------------------------------------------
(* The table of word_count.h.  Its implementation is not among the sources; *)
(* it is modelled from the specification: a sequence of records with unique *)
(* words, new records appended.                                             *)

init_words == <<>>

HasWord(wc, w) == \E k \in 1..Len(wc) : wc[k].word = w

\* a new record for every call
add_word_AlwaysAppend(wc, w) == Append(wc, [word |-> w, count |-> 1])

add_word(wc, w) ==
  IF HasWord(wc, w)
  THEN [k \in 1..Len(wc) |->
          IF wc[k].word = w THEN [wc[k] EXCEPT !.count = @ + 1] ELSE wc[k]]
  ELSE Append(wc, [word |-> w, count |-> 1])

\* a call through the comparator pointer less
CallLess(less, wc1, wc2) ==
  CASE less = "wordcount_less" -> wordcount_less(wc1, wc2)

\* the place of record k once the table is ordered by less (ties keep their order)
SortRank(wc, less, k) ==
  1 + Cardinality({j \in 1..Len(wc) : CallLess(less, wc[j], wc[k])})
    + Cardinality({j \in 1..(k - 1) :
                     /\ ~CallLess(less, wc[j], wc[k])
                     /\ ~CallLess(less, wc[k], wc[j])})

\* the table put in descending order
wordcount_sort_Descending(wc, less) ==
  [p \in 1..Len(wc) |->
     wc[CHOOSE k \in 1..Len(wc) : SortRank(wc, less, k) = Len(wc) + 1 - p]]

wordcount_sort(wc, less) ==
  [p \in 1..Len(wc) |->
     wc[CHOOSE k \in 1..Len(wc) : SortRank(wc, less, k) = p]]

\* one output line per record, in table order
fprint_words(wc) ==
  [k \in 1..Len(wc) |->
     [kind |-> "word", word |-> wc[k].word, count |-> wc[k].count]]

-----------------------------------------------------------------------------
(* num_words: the loop body for one byte, and the code after the loop.     *)
(* The locals are held in a record [num_words, in_word, word_length].      *)

NumWordsLocals == [num_words |-> 0, in_word |-> 0, word_length |-> 0]

NumWordsByte(st, c) ==
  IF isalpha(c)
  THEN [st EXCEPT !.word_length = @ + 1,
                  !.in_word = IF st.in_word = 0 THEN 1 ELSE @]
  ELSE [num_words   |-> IF st.in_word # 0 /\ st.word_length > 1
                        THEN st.num_words + 1 ELSE st.num_words,
        in_word     |-> 0,
        word_length |-> 0]

\* the trailing check left out
NumWordsAtEOF_NoTrailing(st) == st.num_words

NumWordsAtEOF(st) ==
  IF st.in_word # 0 /\ st.word_length > 1
  THEN st.num_words + 1
  ELSE st.num_words

-----------------------------------------------------------------------------
(* count_words: the loop body for one byte, and the code after the loop.   *)
(* word[k] of the C array is word[k + 1] here.  The state is a record      *)
(* [index, word, table, calls].                                            *)

FreshWord == [k \in 1..(MAX_WORD_LEN + 1) |-> UNINIT]

\* word[index] = '\0'; add_word(wclist, word);
Terminate(st) ==
  LET buf == [st.word EXCEPT ![st.index + 1] = NUL]
  IN  [st EXCEPT !.word  = buf,
                 !.table = add_word(st.table, CString(buf)),
                 !.calls = Append(st.calls, CString(buf))]

\* the bound test off by one: a 65th letter is stored
CountWordsByte_OffByOne(st, c) ==
  IF isalpha(c)
  THEN IF st.index <= MAX_WORD_LEN
       THEN [st EXCEPT !.word[st.index + 1] = tolower(c),
                       !.index = @ + 1]
       ELSE st
  ELSE IF st.index > 1
       THEN [Terminate(st) EXCEPT !.index = 0]
       ELSE st

CountWordsByte(st, c) ==
  IF isalpha(c)
  THEN IF st.index < MAX_WORD_LEN
       THEN [st EXCEPT !.word[st.index + 1] = tolower(c),
                       !.index = @ + 1]
       ELSE st
  ELSE IF st.index > 1
       THEN [Terminate(st) EXCEPT !.index = 0]
       ELSE st

CountWordsAtEOF(st) ==
  IF st.index > 1 THEN Terminate(st) ELSE st

-----------------------------------------------------------------------------
(* A whole call of a scanner on a stream s, as the loop run to the end.    *)

RECURSIVE NumWordsFrom(_, _, _)
NumWordsFrom(st, s, k) ==
  IF k > Len(s) THEN NumWordsAtEOF(st)
  ELSE NumWordsFrom(NumWordsByte(st, s[k]), s, k + 1)

NumWordsOf(s) == NumWordsFrom(NumWordsLocals, s, 1)

RECURSIVE CountWordsFrom(_, _, _)
CountWordsFrom(st, s, k) ==
  IF k > Len(s) THEN CountWordsAtEOF(st)
  ELSE CountWordsFrom(CountWordsByte(st, s[k]), s, k + 1)

CountWordsOf(wc, s) ==
  CountWordsFrom([index |-> 0, word |-> FreshWord, table |-> wc,
                  calls |-> <<>>], s, 1).table

-----------------------------------------------------------------------------
(* Inputs.                                                                 *)

DriverBytes == {Ord("A"), Ord("b"), Ord(" ")}

\* n file arguments holding at most budget bytes together
RECURSIVE ArgLists(_, _)
ArgLists(n, budget) ==
  IF n = 0 THEN {<<>>}
  ELSE {<<NoFile>> \o r : r \in ArgLists(n - 1, budget)}
       \cup UNION {{<<File(s)>> \o r : s \in [1..k -> DriverBytes],
                                       r \in ArgLists(n - 1, budget - k)} :
                   k \in 0..budget}

RunInputs ==
  UNION {{[stdin |-> s, files |-> fs] :
            s \in [1..k -> DriverBytes],
            fs \in UNION {ArgLists(n, MaxBytes - k) : n \in 0..MaxFiles}} :
         k \in 0..MaxBytes}

\* the runs the specification spells out
CatText == Bytes("the cat sat on the mat")
ExampleInputs ==
  {[stdin |-> <<>>, files |-> <<File(Bytes("dog dog")), File(Bytes("dog cat"))>>],
   [stdin |-> <<>>, files |-> <<File(Bytes("dog dog")), NoFile,
                                File(Bytes("dog cat"))>>],
   [stdin |-> <<>>, files |-> <<File(CatText)>>],
   [stdin |-> CatText, files |-> <<>>],
   [stdin |-> Bytes("a b c"), files |-> <<>>]}

\* streams for a scanner called on its own: up to MaxChunks pieces, a piece
\* being one byte or MAX_WORD_LEN letters
Pieces == {Repeat(Ord("a"), MAX_WORD_LEN), <<Ord("A")>>, <<Ord("b")>>,
           <<Ord(" ")>>, <<Ord("1")>>}

RECURSIVE ChunkStreams(_)
ChunkStreams(n) ==
  IF n = 0 THEN {<<>>}
  ELSE {<<>>} \cup {p \o r : p \in Pieces, r \in ChunkStreams(n - 1)}

\* the stream behind a handle
Content(h) == IF h = STDIN THEN stdin_data ELSE files[h[2]].data

-----------------------------------------------------------------------------
(* Groups of variables.                                                    *)

modev   == <<count_mode, freq_mode, last_flag, prev_flag>>
inputv  == <<files, stdin_data>>
loopv   == <<i, opened, attempts, err>>
nwv     == <<num_words, in_word, word_length>>
cwv     == <<wclist, index, word>>
tablev  == <<word_counts, calls, sorts>>

-----------------------------------------------------------------------------
(* Calls and returns.                                                      *)

\* where a scanner called from the given site continues
ReturnPc(fr) ==
  CASE fr = "main_stdin" -> "report"
    [] fr = "main_file"  -> "fclose"
    [] fr = "test_nw"    -> "returned"
    [] fr = "test_cw"    -> "returned"

\* total_words = num_words(stdin);
StdinTotal(total, n) == n

\* "=" written for "+="
FileTotal_Assign(total, n) == n

\* total_words += num_words(infile);
FileTotal(total, n) == total + n

\* entry of num_words(h): its locals are initialised
CallNumWords(h, fr) ==
  /\ pc' = "nw_loop"
  /\ frame' = fr
  /\ infile' = h
  /\ num_words' = 0
  /\ in_word' = 0
  /\ word_length' = 0
  /\ UNCHANGED <<cwv, tablev, total_words, ret>>

\* the check of wclist left out
BadArgs_InfileOnly(wl, h) == h = NULL

\* the argument check of count_words
BadArgs(wl, h) == wl = NULL \/ h = NULL

\* entry of count_words(wl, h): the argument check, then its locals
CallCountWords(wl, h, fr) ==
  /\ frame' = fr
  /\ wclist' = wl
  /\ infile' = h
  /\ IF BadArgs(wl, h)
     THEN /\ ret' = 1
          /\ pc' = ReturnPc(fr)
          /\ UNCHANGED <<index, word>>
     ELSE /\ index' = 0
          /\ word' = FreshWord
          /\ pc' = "cw_loop"
          /\ UNCHANGED ret
  /\ UNCHANGED <<nwv, tablev, total_words>>

-----------------------------------------------------------------------------
(* num_words, one step per fgetc.                                          *)

NumWordsState ==
  [num_words |-> num_words, in_word |-> in_word, word_length |-> word_length]

\* fgetc returns a byte: one pass through the loop body
NumWordsRead ==
  /\ pc = "nw_loop"
  /\ fpos < Len(Content(infile))
  /\ LET st == NumWordsByte(NumWordsState, Content(infile)[fpos + 1])
     IN  /\ num_words' = st.num_words
         /\ in_word' = st.in_word
         /\ word_length' = st.word_length
  /\ fpos' = fpos + 1
  /\ UNCHANGED <<pc, frame, modev, inputv, loopv, infile, drained,
                 total_words, cwv, tablev, ret, out>>

\* fgetc returns EOF: the trailing check, the return, the caller's assignment
NumWordsEOF ==
  /\ pc = "nw_loop"
  /\ fpos = Len(Content(infile))
  /\ LET r == NumWordsAtEOF(NumWordsState)
     IN  /\ num_words' = r
         /\ ret' = r
         /\ total_words' = CASE frame = "main_stdin" -> StdinTotal(total_words, r)
                             [] frame = "main_file"  -> FileTotal(total_words, r)
                             [] frame = "test_nw"    -> total_words
  /\ drained' = Append(drained, infile)
  /\ pc' = ReturnPc(frame)
  /\ UNCHANGED <<frame, modev, inputv, loopv, infile, fpos, in_word,
                 word_length, cwv, tablev, out>>

-----------------------------------------------------------------------------
(* count_words, one step per fgetc.                                        *)

CountWordsState ==
  [index |-> index, word |-> word, table |-> word_counts, calls |-> calls]

\* fgetc returns a byte: one pass through the loop body
CountWordsRead ==
  /\ pc = "cw_loop"
  /\ fpos < Len(Content(infile))
  /\ LET st == CountWordsByte(CountWordsState, Content(infile)[fpos + 1])
     IN  /\ index' = st.index
         /\ word' = st.word
         /\ word_counts' = st.table
         /\ calls' = st.calls
  /\ fpos' = fpos + 1
  /\ UNCHANGED <<pc, frame, modev, inputv, loopv, infile, drained,
                 total_words, nwv, wclist, ret, sorts, out>>

\* fgetc returns EOF: the trailing word, return 0
CountWordsEOF ==
  /\ pc = "cw_loop"
  /\ fpos = Len(Content(infile))
  /\ LET st == CountWordsAtEOF(CountWordsState)
     IN  /\ index' = st.index
         /\ word' = st.word
         /\ word_counts' = st.table
         /\ calls' = st.calls
  /\ ret' = 0
  /\ drained' = Append(drained, infile)
  /\ pc' = ReturnPc(frame)
  /\ UNCHANGED <<frame, modev, inputv, loopv, infile, fpos, total_words,
                 nwv, wclist, sorts, out>>

-----------------------------------------------------------------------------
(* main: the option loop.                                                  *)

HelpText == [kind |-> "help", word |-> <<>>, count |-> 0]
ModeText == [kind |-> "specify", word |-> <<>>, count |-> 0]
FreqHeader == [kind |-> "header", word |-> <<>>, count |-> 0]
TotalLine(n) == [kind |-> "total", word |-> <<>>, count |-> n]

scanv == <<frame, infile, fpos, drained, total_words, nwv, cwv, tablev, ret>>

\* -c taken as a no-op because total-count is the default
GetoptC_NoOp ==
  /\ pc = "getopt"
  /\ last_flag' = "c"
  /\ prev_flag' = last_flag
  /\ UNCHANGED <<pc, count_mode, freq_mode, inputv, loopv, scanv, out>>

\* case 'c'
GetoptC ==
  /\ pc = "getopt"
  /\ count_mode' = TRUE
  /\ freq_mode' = FALSE
  /\ last_flag' = "c"
  /\ prev_flag' = last_flag
  /\ UNCHANGED <<pc, inputv, loopv, scanv, out>>

\* case 'f' without the assignment to count_mode
GetoptF_KeepCount ==
  /\ pc = "getopt"
  /\ freq_mode' = TRUE
  /\ last_flag' = "f"
  /\ prev_flag' = last_flag
  /\ UNCHANGED <<pc, count_mode, inputv, loopv, scanv, out>>

\* case 'f'
GetoptF ==
  /\ pc = "getopt"
  /\ count_mode' = FALSE
  /\ freq_mode' = TRUE
  /\ last_flag' = "f"
  /\ prev_flag' = last_flag
  /\ UNCHANGED <<pc, inputv, loopv, scanv, out>>

\* case 'h' and default: return display_help()
GetoptHelp ==
  /\ pc = "getopt"
  /\ out' = Append(out, HelpText)
  /\ pc' = "exit"
  /\ UNCHANGED <<modev, inputv, loopv, scanv>>

\* getopt_long returns -1: the mode check that follows the loop
GetoptEnd ==
  /\ pc = "getopt"
  /\ IF ~count_mode /\ ~freq_mode
     THEN /\ out' = out \o <<ModeText, HelpText>>
          /\ pc' = "exit"
     ELSE /\ pc' = "init_words"
          /\ UNCHANGED out
  /\ UNCHANGED <<modev, inputv, loopv, scanv>>

-----------------------------------------------------------------------------
(* main: reading the input.                                                *)

\* init_words(&word_counts)
InitWords ==
  /\ pc = "init_words"
  /\ word_counts' = init_words
  /\ pc' = "input"
  /\ UNCHANGED <<frame, modev, inputv, loopv, infile, fpos, drained,
                 total_words, nwv, cwv, calls, sorts, ret, out>>

\* the two scanners exchanged
MainScan_Swapped(h, fr) ==
  IF count_mode THEN CallCountWords(WORD_COUNTS, h, fr)
  ELSE IF freq_mode THEN CallNumWords(h, fr)
  ELSE /\ pc' = ReturnPc(fr)
       /\ UNCHANGED <<frame, infile, total_words, nwv, cwv, tablev, ret>>

\* the scanner main calls on stream h, by mode
MainScan(h, fr) ==
  IF count_mode THEN CallNumWords(h, fr)
  ELSE IF freq_mode THEN CallCountWords(WORD_COUNTS, h, fr)
  ELSE /\ pc' = ReturnPc(fr)
       /\ UNCHANGED <<frame, infile, total_words, nwv, cwv, tablev, ret>>

\* (argc - optind) < 1: read stdin
MainStdin ==
  /\ pc = "input"
  /\ Len(files) < 1
  /\ MainScan(STDIN, "main_stdin")
  /\ UNCHANGED <<modev, inputv, loopv, fpos, drained, out>>

\* for (int i = optind; ...
MainFor ==
  /\ pc = "input"
  /\ ~(Len(files) < 1)
  /\ i' = 1
  /\ pc' = "loop"
  /\ UNCHANGED <<modev, inputv, opened, attempts, err, scanv, out>>

\* fopen(argv[i], "r") succeeds
FopenOk ==
  /\ pc = "loop"
  /\ i <= Len(files)
  /\ files[i].ok
  /\ infile' = FileH(i)
  /\ fpos' = 0
  /\ opened' = opened \cup {i}
  /\ attempts' = Append(attempts, i)
  /\ pc' = "call"
  /\ UNCHANGED <<frame, modev, inputv, i, err, drained, total_words, nwv,
                 cwv, tablev, ret, out>>

\* the failure ends the loop ("break" for "continue")
FopenFail_Break ==
  /\ pc = "loop"
  /\ i <= Len(files)
  /\ ~files[i].ok
  /\ infile' = NULL
  /\ err' = Append(err, i)
  /\ attempts' = Append(attempts, i)
  /\ pc' = "report"
  /\ UNCHANGED <<frame, modev, inputv, i, opened, fpos, drained,
                 total_words, nwv, cwv, tablev, ret, out>>

\* fopen fails: perror(argv[i]); continue;
FopenFail ==
  /\ pc = "loop"
  /\ i <= Len(files)
  /\ ~files[i].ok
  /\ infile' = NULL
  /\ err' = Append(err, i)
  /\ attempts' = Append(attempts, i)
  /\ i' = i + 1
  /\ UNCHANGED <<pc, frame, modev, inputv, opened, fpos, drained,
                 total_words, nwv, cwv, tablev, ret, out>>

\* the scanner call on the file just opened
MainFile ==
  /\ pc = "call"
  /\ MainScan(infile, "main_file")
  /\ UNCHANGED <<modev, inputv, loopv, fpos, drained, out>>

\* the fclose left out
Fclose_Leak ==
  /\ pc = "fclose"
  /\ infile' = NULL
  /\ i' = i + 1
  /\ pc' = "loop"
  /\ UNCHANGED <<frame, modev, inputv, opened, attempts, err, fpos, drained,
                 total_words, nwv, cwv, tablev, ret, out>>

\* the table sorted after each file, not once after the loop
Fclose_SortEach ==
  /\ pc = "fclose"
  /\ opened' = opened \ {i}
  /\ infile' = NULL
  /\ i' = i + 1
  /\ pc' = "loop"
  /\ IF freq_mode
     THEN /\ word_counts' = wordcount_sort(word_counts, "wordcount_less")
          /\ sorts' = Append(sorts, word_counts)
     ELSE UNCHANGED <<word_counts, sorts>>
  /\ UNCHANGED <<frame, modev, inputv, attempts, err, fpos, drained,
                 total_words, nwv, cwv, calls, ret, out>>

\* fclose(infile); i++
Fclose ==
  /\ pc = "fclose"
  /\ opened' = opened \ {i}
  /\ infile' = NULL
  /\ i' = i + 1
  /\ pc' = "loop"
  /\ UNCHANGED <<frame, modev, inputv, attempts, err, fpos, drained,
                 total_words, nwv, cwv, tablev, ret, out>>

\* i < argc fails: the loop ends
ForEnd ==
  /\ pc = "loop"
  /\ i > Len(files)
  /\ pc' = "report"
  /\ UNCHANGED <<modev, inputv, loopv, scanv, out>>

-----------------------------------------------------------------------------
(* main: the report.                                                       *)

\* printf("The total number of words is: %i\n", total_words)
PrintTotal ==
  /\ pc = "report"
  /\ count_mode
  /\ out' = Append(out, TotalLine(total_words))
  /\ pc' = "done"
  /\ UNCHANGED <<modev, inputv, loopv, scanv>>

\* wordcount_sort(&word_counts, wordcount_less); printf(header)
SortWords ==
  /\ pc = "report"
  /\ ~count_mode
  /\ IF freq_mode
     THEN /\ word_counts' = wordcount_sort(word_counts, "wordcount_less")
          /\ sorts' = Append(sorts, word_counts)
          /\ out' = Append(out, FreqHeader)
          /\ pc' = "print"
     ELSE /\ pc' = "done"
          /\ UNCHANGED <<word_counts, sorts, out>>
  /\ UNCHANGED <<frame, modev, inputv, loopv, infile, fpos, drained,
                 total_words, nwv, cwv, calls, ret>>

\* fprint_words(word_counts, stdout); return 0
PrintWords ==
  /\ pc = "print"
  /\ out' = out \o fprint_words(word_counts)
  /\ pc' = "done"
  /\ UNCHANGED <<modev, inputv, loopv, scanv>>

-----------------------------------------------------------------------------
(* The program: one run of main on its arguments and standard input.       *)

Init ==
  /\ pc = "getopt"
  /\ frame = "none"
  /\ count_mode = TRUE
  /\ freq_mode = FALSE
  /\ last_flag = "none"
  /\ prev_flag = "none"
  /\ \E inp \in RunInputs \cup ExampleInputs :
       /\ files = inp.files
       /\ stdin_data = inp.stdin
  /\ i = 0
  /\ infile = NULL
  /\ fpos = 0
  /\ opened = {}
  /\ attempts = <<>>
  /\ drained = <<>>
  /\ total_words = 0
  /\ word_counts = <<>>
  /\ wclist = NULL
  /\ num_words = 0
  /\ in_word = 0
  /\ word_length = 0
  /\ index = 0
  /\ word = FreshWord
  /\ ret = 0
  /\ calls = <<>>
  /\ sorts = <<>>
  /\ err = <<>>
  /\ out = <<>>

Next ==
  \/ GetoptC \/ GetoptF \/ GetoptHelp \/ GetoptEnd
  \/ InitWords \/ MainStdin \/ MainFor
  \/ FopenOk \/ FopenFail \/ MainFile \/ Fclose \/ ForEnd
  \/ NumWordsRead \/ NumWordsEOF \/ CountWordsRead \/ CountWordsEOF
  \/ PrintTotal \/ SortWords \/ PrintWords

Spec == Init /\ [][Next]_vars

-----------------------------------------------------------------------------
(* The scanners called on their own: num_words(infile) and                 *)
(* count_words(wclist, infile) on argument values drawn at the start,      *)
(* null handles included for count_words.                                  *)

\* a table that holds a record already, so that a change to it shows
UsedTable == <<[word |-> Bytes("bb"), count |-> 2]>>

\* num_words(stdin) on a stream
TestNumWords ==
  /\ pc = "test_num_words"
  /\ CallNumWords(infile, "test_nw")
  /\ UNCHANGED <<modev, inputv, loopv, fpos, drained, out>>

\* count_words(wclist, infile) on the arguments drawn
TestCountWords ==
  /\ pc = "test_count_words"
  /\ CallCountWords(wclist, infile, "test_cw")
  /\ UNCHANGED <<modev, inputv, loopv, fpos, drained, out>>

InitScan ==
  /\ frame = "none"
  /\ count_mode = TRUE
  /\ freq_mode = FALSE
  /\ last_flag = "none"
  /\ prev_flag = "none"
  /\ files = <<>>
  /\ stdin_data \in ChunkStreams(MaxChunks)
  /\ \/ /\ pc = "test_num_words"
        /\ infile = STDIN
        /\ wclist = NULL
        /\ word_counts = init_words
     \/ /\ pc = "test_count_words"
        /\ infile = STDIN
        /\ wclist = WORD_COUNTS
        /\ word_counts = init_words
     \/ /\ pc = "test_count_words"
        /\ infile \in {NULL, STDIN}
        /\ wclist \in {NULL, WORD_COUNTS}
        /\ wclist = NULL \/ infile = NULL
        /\ word_counts \in {init_words, UsedTable}
  /\ i = 0
  /\ fpos = 0
  /\ opened = {}
  /\ attempts = <<>>
  /\ drained = <<>>
  /\ total_words = 0
  /\ num_words = 0
  /\ in_word = 0
  /\ word_length = 0
  /\ index = 0
  /\ word = FreshWord
  /\ ret = 0
  /\ calls = <<>>
  /\ sorts = <<>>
  /\ err = <<>>
  /\ out = <<>>

NextScan ==
  \/ TestNumWords \/ TestCountWords
  \/ NumWordsRead \/ NumWordsEOF \/ CountWordsRead \/ CountWordsEOF

SpecScan == InitScan /\ [][NextScan]_vars

-----------------------------------------------------------------------------
(* The table used on its own: add_word and wordcount_sort (with            *)
(* wordcount_less) called in any order on the table init_words leaves.     *)

MaxAdds == 4
MaxSorts == 2

\* the words added: a word, a longer word it is a prefix of, and another
TableWords == {Bytes("ab"), Bytes("abc"), Bytes("ba")}

\* add_word(&word_counts, w)
TableAdd ==
  /\ pc = "table"
  /\ Len(calls) < MaxAdds
  /\ \E w \in TableWords :
       /\ word_counts' = add_word(word_counts, w)
       /\ calls' = Append(calls, w)
  /\ UNCHANGED <<pc, frame, modev, inputv, loopv, infile, fpos, drained,
                 total_words, nwv, cwv, sorts, ret, out>>

\* wordcount_sort(&word_counts, wordcount_less)
TableSort ==
  /\ pc = "table"
  /\ Len(sorts) < MaxSorts
  /\ word_counts' = wordcount_sort(word_counts, "wordcount_less")
  /\ sorts' = Append(sorts, word_counts)
  /\ UNCHANGED <<pc, frame, modev, inputv, loopv, infile, fpos, drained,
                 total_words, nwv, cwv, calls, ret, out>>

InitTable ==
  /\ pc = "table"
  /\ frame = "none"
  /\ count_mode = TRUE
  /\ freq_mode = FALSE
  /\ last_flag = "none"
  /\ prev_flag = "none"
  /\ files = <<>>
  /\ stdin_data = <<>>
  /\ i = 0
  /\ infile = NULL
  /\ fpos = 0
  /\ opened = {}
  /\ attempts = <<>>
  /\ drained = <<>>
  /\ total_words = 0
  /\ word_counts = init_words
  /\ wclist = WORD_COUNTS
  /\ num_words = 0
  /\ in_word = 0
  /\ word_length = 0
  /\ index = 0
  /\ word = FreshWord
  /\ ret = 0
  /\ calls = <<>>
  /\ sorts = <<>>
  /\ err = <<>>
  /\ out = <<>>

NextTable == TableAdd \/ TableSort

SpecTable == InitTable /\ [][NextTable]_vars

-----------------------------------------------------------------------------
(* Reference notions the properties are stated with.  None of them is      *)
(* built from the scanners' code.                                          *)

\* a maximal run of alphabetic bytes starts at k
IsRunStart(s, k) == isalpha(s[k]) /\ (k = 1 \/ ~isalpha(s[k - 1]))

\* the last byte of the run that starts at k
RunEnd(s, k) ==
  CHOOSE e \in k..Len(s) :
    /\ \A j \in k..e : isalpha(s[j])
    /\ e = Len(s) \/ ~isalpha(s[e + 1])

RunLen(s, k) == RunEnd(s, k) - k + 1

RunStarts(s) == {k \in 1..Len(s) : IsRunStart(s, k)}

\* the starts of the runs of length at least 2
WordStarts(s) == {k \in RunStarts(s) : RunLen(s, k) >= 2}

RefCount(s) == Cardinality(WordStarts(s))

Min(a, b) == IF a < b THEN a ELSE b

\* the run that starts at k, lowercased and cut to MAX_WORD_LEN
RefWord(s, k) ==
  [j \in 1..Min(RunLen(s, k), MAX_WORD_LEN) |-> tolower(s[k + j - 1])]

\* the words of s in input order
RefWords(s) ==
  LET ws == WordStarts(s)
  IN  [p \in 1..Cardinality(ws) |->
         RefWord(s, CHOOSE k \in ws :
                      Cardinality({j \in ws : j < k}) = p - 1)]

RECURSIVE SumCounts(_)
SumCounts(wc) ==
  IF wc = <<>> THEN 0 ELSE Head(wc).count + SumCounts(Tail(wc))

\* the count the table holds for w, 0 when it holds none
CountOf(wc, w) ==
  SumCounts(SelectSeq(wc, LAMBDA r : r.word = w))

\* the records of the table that hold w
RecordsOf(wc, w) == {k \in 1..Len(wc) : wc[k].word = w}

\* a call of num_words on its own has returned
NumWordsReturned == pc = "returned" /\ frame = "test_nw"

\* a call of count_words with non-null arguments on its own has returned
CountWordsReturned ==
  pc = "returned" /\ frame = "test_cw" /\ ~(wclist = NULL \/ infile = NULL)

-----------------------------------------------------------------------------
(* C1: num_words returns the number of maximal runs of alphabetic bytes of *)
(* length at least 2, a run still open at the end of the stream included,  *)
(* and 0 on the empty stream.                                              *)
C1_NumWordsCountsRuns ==
  NumWordsReturned =>
    /\ ret = RefCount(stdin_data)
    /\ stdin_data = <<>> => ret = 0

\* num_words has returned 1 on a stream longer than MAX_WORD_LEN that holds
\* a one-letter run and ends inside a run
C1_Witness ==
  /\ NumWordsReturned
  /\ ret = 1
  /\ Len(stdin_data) > MAX_WORD_LEN
  /\ isalpha(stdin_data[Len(stdin_data)])
  /\ \E k \in RunStarts(stdin_data) : RunLen(stdin_data, k) = 1

(* C2: the words count_words passes to add_word are, in input order, the   *)
(* maximal alphabetic runs of length at least 2, each lowercased and cut   *)
(* to its first MAX_WORD_LEN characters; no word mixes letters of two runs.*)
C2_CallsAreTheRuns ==
  CountWordsReturned => calls = RefWords(stdin_data)

(* C3: the counts of the table count_words fills from the empty table sum  *)
(* to the value num_words returns on the same stream.                      *)
C3_CrossModeSum ==
  CountWordsReturned => SumCounts(word_counts) = NumWordsOf(stdin_data)

(* C4: on a stream all of whose runs have length 1, num_words returns 0    *)
(* and count_words never calls add_word and leaves the empty table empty.  *)
C4_SingleLettersDropped ==
  /\ NumWordsReturned \/ CountWordsReturned
  /\ \A k \in RunStarts(stdin_data) : RunLen(stdin_data, k) = 1
  => /\ NumWordsReturned => ret = 0
     /\ CountWordsReturned => calls = <<>> /\ word_counts = <<>>

(* C5: a run longer than MAX_WORD_LEN is stored as its first MAX_WORD_LEN  *)
(* lowercased characters, in a single record whose count is the number of  *)
(* runs that are cut to that word.                                         *)
C5_TruncationCollision ==
  CountWordsReturned =>
    \A k \in RunStarts(stdin_data) :
      RunLen(stdin_data, k) > MAX_WORD_LEN =>
        /\ Cardinality(RecordsOf(word_counts, RefWord(stdin_data, k))) = 1
        /\ CountOf(word_counts, RefWord(stdin_data, k))
             = Cardinality({j \in WordStarts(stdin_data) :
                              RefWord(stdin_data, j) = RefWord(stdin_data, k)})

(* C6: count_words called with a null table or a null stream returns 1     *)
(* at once: it reads no byte, calls add_word never and leaves the table    *)
(* as it was; called with both non-null it returns 0.                      *)
C6_ArgumentCheck ==
  /\ [][(pc = "test_count_words" /\ (wclist = NULL \/ infile = NULL)) =>
          /\ pc' = "returned"
          /\ ret' = 1
          /\ fpos' = fpos
          /\ drained' = drained
          /\ calls' = calls
          /\ word_counts' = word_counts]_vars
  /\ [](CountWordsReturned => ret = 0)

\* count_words has returned 1 for a null table and a stream that holds a
\* word, the table still holding its record
C6_Witness ==
  /\ pc = "returned"
  /\ frame = "test_cw"
  /\ wclist = NULL
  /\ infile = STDIN
  /\ ret = 1
  /\ RefCount(stdin_data) > 0
  /\ word_counts = UsedTable

-----------------------------------------------------------------------------
(* Reference notions for a whole run of main.                              *)

\* the file arguments fopen succeeds on, in argument order
OkFiles(fs) == SelectSeq(fs, LAMBDA f : f.ok)

\* the sum of num_words over the files fopen succeeds on
RECURSIVE SumNumWords(_)
SumNumWords(fs) ==
  IF fs = <<>> THEN 0
  ELSE (IF Head(fs).ok THEN NumWordsOf(Head(fs).data) ELSE 0)
       + SumNumWords(Tail(fs))

\* the sum, over the files fopen succeeds on, of the count of w in the table
\* count_words fills from that file alone
RECURSIVE SumCountOf(_, _)
SumCountOf(fs, w) ==
  IF fs = <<>> THEN 0
  ELSE (IF Head(fs).ok
        THEN CountOf(CountWordsOf(init_words, Head(fs).data), w) ELSE 0)
       + SumCountOf(Tail(fs), w)

\* the words of the tables count_words fills from each file alone
WordsOfFiles(fs) ==
  UNION {{CountWordsOf(init_words, fs[k].data)[j].word :
            j \in 1..Len(CountWordsOf(init_words, fs[k].data))} :
         k \in {k \in 1..Len(fs) : fs[k].ok}}

WordsOfTable(wc) == {wc[k].word : k \in 1..Len(wc)}

\* count_words on each stream of ss in turn, into one table
RECURSIVE TableOf(_, _)
TableOf(wc, ss) ==
  IF ss = <<>> THEN wc
  ELSE TableOf(CountWordsOf(wc, Head(ss).data), Tail(ss))

\* what a run on the file arguments fs (fopen succeeding on each) and the
\* standard input sin leaves in total_words and in word_counts
RunTotal(fs, sin, cm) ==
  IF ~cm THEN 0
  ELSE IF Len(fs) < 1 THEN NumWordsOf(sin) ELSE SumNumWords(fs)

RunTable(fs, sin, cm) ==
  IF cm THEN <<>>
  ELSE wordcount_sort(IF Len(fs) < 1 THEN CountWordsOf(init_words, sin)
                      ELSE TableOf(init_words, fs),
                      "wordcount_less")

\* s <= t byte-wise
LexLeq(s, t) ==
  \/ Len(s) <= Len(t) /\ \A j \in 1..Len(s) : s[j] = t[j]
  \/ \E d \in 1..Min(Len(s), Len(t)) :
       s[d] < t[d] /\ \A j \in 1..(d - 1) : s[j] = t[j]

Rec(w, n) == [word |-> Bytes(w), count |-> n]

DogFiles == <<File(Bytes("dog dog")), File(Bytes("dog cat"))>>
DogFilesWithGap == <<File(Bytes("dog dog")), NoFile, File(Bytes("dog cat"))>>

-----------------------------------------------------------------------------
(* C7: once sorted with wordcount_less, every adjacent pair of records A,  *)
(* B has A.count < B.count, or equal counts and A.word <= B.word byte-wise;*)
(* the records are printed in that order; "the cat sat on the mat" gives   *)
(* cat 1, mat 1, on 1, sat 1, the 2.                                       *)
C7_OrderingLaw ==
  (pc \in {"print", "done"} /\ ~count_mode) =>
    /\ \A k \in 1..(Len(word_counts) - 1) :
         \/ word_counts[k].count < word_counts[k + 1].count
         \/ /\ word_counts[k].count = word_counts[k + 1].count
            /\ LexLeq(word_counts[k].word, word_counts[k + 1].word)
    /\ pc = "done" =>
         /\ Len(out) = Len(word_counts) + 1
         /\ \A k \in 1..Len(word_counts) :
              /\ out[k + 1].word = word_counts[k].word
              /\ out[k + 1].count = word_counts[k].count
    /\ (files = <<File(CatText)>> \/ (files = <<>> /\ stdin_data = CatText)) =>
         word_counts = <<Rec("cat", 1), Rec("mat", 1), Rec("on", 1),
                         Rec("sat", 1), Rec("the", 2)>>

\* the frequency report of the file "the cat sat on the mat" is printed
C7_Witness ==
  /\ pc = "done"
  /\ ~count_mode
  /\ files = <<File(CatText)>>
  /\ Len(out) = 6
  /\ out[6].word = Bytes("the")

(* C8: with file arguments all files feed one table and one total: in      *)
(* frequency mode the final count of each word is the sum over the opened  *)
(* files of its count in that file alone, in total-count mode the reported *)
(* total is the sum of num_words over the opened files; no run spans two   *)
(* files; "dog dog" and "dog cat" give cat 1, dog 3.                       *)
C8_MultiFileAccumulation ==
  (pc = "done" /\ Len(files) >= 1) =>
    IF count_mode
    THEN /\ total_words = SumNumWords(files)
         /\ total_words = SumCounts([k \in 1..Len(files) |->
                             [count |-> IF files[k].ok
                                        THEN RefCount(files[k].data) ELSE 0]])
         /\ out = <<TotalLine(total_words)>>
    ELSE /\ \A w \in WordsOfTable(word_counts) \cup WordsOfFiles(files) :
              /\ Cardinality(RecordsOf(word_counts, w)) = 1
              /\ CountOf(word_counts, w) = SumCountOf(files, w)
         /\ files = DogFiles =>
              word_counts = <<Rec("cat", 1), Rec("dog", 3)>>

\* the frequency run on the files "dog dog" and "dog cat" has ended with
\* dog counted three times
C8_Witness ==
  /\ pc = "done"
  /\ ~count_mode
  /\ files = DogFiles
  /\ CountOf(word_counts, Bytes("dog")) = 3

(* C9 as stated: after a run in which fopen failed, the total and the      *)
(* table are those of the same run with the unopenable files removed from  *)
(* the argument list.                                                      *)
C9_SameAsRunWithoutTheFile ==
  (pc = "done" /\ \E k \in 1..Len(files) : ~files[k].ok) =>
    /\ total_words = RunTotal(OkFiles(files), stdin_data, count_mode)
    /\ word_counts = RunTable(OkFiles(files), stdin_data, count_mode)

(* C9, amended: a failing fopen is reported and the run goes on to the     *)
(* report; the total and the table are those of the same run with the      *)
(* unopenable files removed from the argument list, provided an argument   *)
(* is left; when fopen fails on every argument the total is 0 and the      *)
(* table empty.                                                            *)
C9_UnopenableSkipped ==
  (pc = "done" /\ Len(files) >= 1) =>
    /\ err = SelectSeq([k \in 1..Len(files) |-> k], LAMBDA k : ~files[k].ok)
    /\ IF count_mode
       THEN out = <<TotalLine(total_words)>>
       ELSE out = <<FreqHeader>> \o fprint_words(word_counts)
    /\ IF Len(OkFiles(files)) >= 1
       THEN /\ total_words = RunTotal(OkFiles(files), stdin_data, count_mode)
            /\ word_counts = RunTable(OkFiles(files), stdin_data, count_mode)
       ELSE /\ total_words = 0
            /\ word_counts = <<>>

\* the frequency run on "dog dog", an unopenable file and "dog cat" has ended
\* with one diagnostic and dog counted three times
C9_Witness ==
  /\ pc = "done"
  /\ ~count_mode
  /\ files = DogFilesWithGap
  /\ err = <<2>>
  /\ CountOf(word_counts, Bytes("dog")) = 3

(* C10: with file arguments at most one file is open at any moment; fopen  *)
(* is tried once on each argument, in argument order, and only while no    *)
(* file is open; a file is closed only after fgetc has returned EOF on it; *)
(* no file is open when the report is produced.                            *)
C10_ScopedStreams ==
  /\ Cardinality(opened) <= 1
  /\ opened # {} =>
       /\ opened = {i}
       /\ infile = FileH(i)
       /\ pc \in {"call", "nw_loop", "cw_loop", "fclose"}
  /\ attempts = [k \in 1..Len(attempts) |-> k]
  /\ pc = "loop" => opened = {} /\ Len(attempts) = i - 1
  /\ pc = "fclose" =>
       /\ fpos = Len(files[i].data)
       /\ drained # <<>>
       /\ drained[Len(drained)] = FileH(i)
  /\ Len(files) >= 1 =>
       LET ks == SelectSeq(attempts,
                           LAMBDA k : files[k].ok /\ (k < i \/ pc = "fclose"))
       IN  drained = [p \in 1..Len(ks) |-> FileH(ks[p])]
  /\ pc \in {"report", "print", "done"} =>
       opened = {} /\ Len(attempts) = Len(files)

\* the second file is being read, the first one drained and closed
C10_Witness ==
  /\ pc \in {"nw_loop", "cw_loop"}
  /\ i = 2
  /\ opened = {2}
  /\ fpos = 1
  /\ drained = <<FileH(1)>>

-----------------------------------------------------------------------------
\* the handles of the file arguments fopen succeeds on, in argument order
OkHandles ==
  LET ks == SelectSeq([k \in 1..Len(files) |-> k], LAMBDA k : files[k].ok)
  IN  [p \in 1..Len(ks) |-> FileH(ks[p])]

(* C11: in a frequency run wordcount_sort is called exactly once, after    *)
(* every input (standard input, or each file fopen succeeds on) has been   *)
(* read to EOF and closed; from the sort on neither the table nor the      *)
(* history of add_word calls changes; in a total-count run it is never     *)
(* called.                                                                 *)
C11_SortOnceAfterInput ==
  /\ [](/\ Len(sorts) <= 1
        /\ count_mode => Len(sorts) = 0
        /\ Len(sorts) = 1 =>
             /\ freq_mode
             /\ pc \in {"print", "done"}
             /\ opened = {}
             /\ IF Len(files) < 1
                THEN drained = <<STDIN>> /\ fpos = Len(stdin_data)
                ELSE Len(attempts) = Len(files) /\ drained = OkHandles
        /\ (pc = "done" /\ ~count_mode) => Len(sorts) = 1)
  /\ [][Len(sorts) >= 1 => UNCHANGED <<word_counts, calls, sorts>>]_vars

\* the frequency run on the files "dog dog" and "dog cat" has ended after
\* four add_word calls and one sort
C11_Witness ==
  /\ pc = "done"
  /\ Len(sorts) = 1
  /\ files = DogFiles
  /\ Len(calls) = 4
  /\ word_counts # TableOf(init_words, DogFiles)

-----------------------------------------------------------------------------
Kinds(o) == {o[k].kind : k \in 1..Len(o)}

(* C12: total-count is the mode when no mode flag was given; otherwise the *)
(* mode is the one of the last -c / -f flag, it does not change after      *)
(* parsing, the scanner that runs is the one of that mode, and a finished  *)
(* run has printed exactly one report: the total line alone, or the header *)
(* followed by the listing of the table.                                   *)
C12_LastFlagWins ==
  /\ [](/\ last_flag \in {"none", "c"} => count_mode /\ ~freq_mode
        /\ last_flag = "f" => freq_mode /\ ~count_mode
        /\ pc = "nw_loop" => last_flag # "f"
        /\ pc = "cw_loop" => last_flag = "f"
        /\ pc = "done" =>
             out = (IF last_flag = "f"
                    THEN <<FreqHeader>> \o fprint_words(word_counts)
                    ELSE <<TotalLine(total_words)>>))
  /\ [][pc # "getopt" => UNCHANGED modev]_vars

\* -c then -f: the run on "the cat sat on the mat" has ended with the
\* frequency listing alone (the header and one line per distinct word)
C12_Witness ==
  /\ pc = "done"
  /\ prev_flag = "c"
  /\ last_flag = "f"
  /\ Len(files) < 1
  /\ stdin_data = CatText
  /\ Kinds(out) = {"header", "word"}
  /\ Len(out) = 6

(* C18: while count_mode holds the table stays empty and count_words, the  *)
(* sort and the listing are never entered; while it does not, total_words  *)
(* stays 0 and num_words is never entered; a stream is scanned once, by    *)
(* one scanner: the scanner in progress never changes into the other, and  *)
(* it never runs on a stream already read to EOF.                          *)
C18_ModePathsDecoupled ==
  /\ [](/\ count_mode =>
             /\ word_counts = <<>> /\ calls = <<>> /\ sorts = <<>>
             /\ pc \notin {"cw_loop", "print"}
             /\ Kinds(out) \cap {"header", "word"} = {}
        /\ ~count_mode =>
             /\ total_words = 0
             /\ pc # "nw_loop"
             /\ "total" \notin Kinds(out)
        /\ \A j, k \in 1..Len(drained) : drained[j] = drained[k] => j = k
        /\ pc \in {"nw_loop", "cw_loop"} =>
             \A k \in 1..Len(drained) : drained[k] # infile
        /\ pc = "done" =>
             drained = (IF Len(files) < 1 THEN <<STDIN>> ELSE OkHandles))
  /\ [][/\ pc = "nw_loop" => pc' # "cw_loop"
        /\ pc = "cw_loop" => pc' # "nw_loop"]_vars

\* a frequency run has ended with a table of two records and total_words 0
C18_Witness ==
  /\ pc = "done"
  /\ ~count_mode
  /\ total_words = 0
  /\ Len(word_counts) >= 2
  /\ Len(drained) = 2

\* a total-count run has ended with a positive total and an empty table
C18_WitnessCount ==
  /\ pc = "done"
  /\ count_mode
  /\ total_words >= 2
  /\ word_counts = <<>>

-----------------------------------------------------------------------------
IsLower(c) == c >= 97 /\ c <= 122

(* C16: at every step of count_words index is within 0..MAX_WORD_LEN and   *)
(* the buffer keeps its MAX_WORD_LEN + 1 bytes, so the letter written at   *)
(* word[index - 1] and the terminator written at word[index] are inside    *)
(* it, and the letter last written is a lowercase one; every word passed   *)
(* to add_word has between 2 and MAX_WORD_LEN bytes, all of them lowercase *)
(* letters.                                                                *)
C16_WordShapeAndBound ==
  /\ [](/\ index \in 0..MAX_WORD_LEN
        /\ Len(word) = MAX_WORD_LEN + 1
        /\ (pc = "cw_loop" /\ index > 0) => IsLower(word[index]))
  /\ [][Len(calls') > Len(calls) =>
          LET w == calls'[Len(calls')]
          IN  /\ Len(calls') = Len(calls) + 1
              /\ Len(w) \in 2..MAX_WORD_LEN
              /\ \A j \in 1..Len(w) : IsLower(w[j])]_vars

\* count_words has returned from a stream with a run of at least twice
\* MAX_WORD_LEN letters, holding a mixed-case one: the buffer is full and
\* the word passed on has MAX_WORD_LEN letters
C16_Witness ==
  /\ CountWordsReturned
  /\ \E k \in RunStarts(stdin_data) :
       /\ RunLen(stdin_data, k) >= 2 * MAX_WORD_LEN
       /\ stdin_data[k] = Ord("A")
  /\ index = MAX_WORD_LEN
  /\ \E k \in 1..Len(calls) : Len(calls[k]) = MAX_WORD_LEN

(* C17: while count_words reads a stream, the add_word calls made so far   *)
(* are one per run of length at least 2 whose closing byte has been read;  *)
(* when it has returned they are one per run of length at least 2, and     *)
(* the counts of the table filled from empty sum to no less than num_words *)
(* of the stream.                                                          *)
C17_OneCallPerRun ==
  (frame = "test_cw" /\ ~(wclist = NULL \/ infile = NULL)) =>
    /\ pc = "cw_loop" =>
         Len(calls) = Cardinality({k \in WordStarts(stdin_data) :
                                     RunEnd(stdin_data, k) < fpos})
    /\ pc = "returned" =>
         /\ Len(calls) = RefCount(stdin_data)
         /\ SumCounts(word_counts) >= NumWordsOf(stdin_data)

\* the part of C17 that does hold: no fewer calls than runs of length at
\* least 2, and a sum of counts no smaller than their number
NoRunLost ==
  CountWordsReturned =>
    /\ Len(calls) >= RefCount(stdin_data)
    /\ SumCounts(word_counts) >= RefCount(stdin_data)

-----------------------------------------------------------------------------
Words(wc) == {wc[k].word : k \in 1..Len(wc)}

\* how many records of wc are equal to r
Copies(wc, r) == Cardinality({k \in 1..Len(wc) : wc[k] = r})

(* C13: after any sequence of add_word calls on the empty table no two     *)
(* records hold the same word, every count is at least 1 and the counts    *)
(* sum to the number of calls; each call adds one record with count 1 for  *)
(* a word the table did not hold, or raises the count of the one record    *)
(* that holds the word by 1, and changes the count of no other word.       *)
C13_TableUnderIncrement ==
  /\ [](/\ \A j, k \in 1..Len(word_counts) :
             word_counts[j].word = word_counts[k].word => j = k
        /\ \A k \in 1..Len(word_counts) : word_counts[k].count >= 1
        /\ SumCounts(word_counts) = Len(calls))
  /\ [][Len(calls') > Len(calls) =>
          LET w == calls'[Len(calls')]
          IN  /\ Len(calls') = Len(calls) + 1
              /\ IF w \in Words(word_counts)
                 THEN /\ Len(word_counts') = Len(word_counts)
                      /\ CountOf(word_counts', w) = CountOf(word_counts, w) + 1
                 ELSE /\ Len(word_counts') = Len(word_counts) + 1
                      /\ CountOf(word_counts', w) = 1
              /\ Words(word_counts') = Words(word_counts) \cup {w}
              /\ \A v \in Words(word_counts) \ {w} :
                   CountOf(word_counts', v) = CountOf(word_counts, v)]_vars

\* four calls, the last three for a word already held: one record of
\* count 3 beside one of count 1
C13_Witness ==
  /\ pc = "table"
  /\ calls = <<Bytes("ab"), Bytes("ba"), Bytes("ba"), Bytes("ba")>>
  /\ Len(word_counts) = 2
  /\ CountOf(word_counts, Bytes("ba")) = 3
  /\ CountOf(word_counts, Bytes("ab")) = 1

\* no record of wc comes before an earlier one by the comparator less
SortedBy(wc, less) ==
  \A j, k \in 1..Len(wc) : j < k => ~CallLess(less, wc[k], wc[j])

(* C14: a call of wordcount_sort with wordcount_less leaves a table that   *)
(* is sorted by wordcount_less, holding the records it held, each as many  *)
(* times; called on a table already sorted by wordcount_less it leaves the *)
(* sequence of records as it was.                                          *)
C14_SortIdempotent ==
  [][Len(sorts') > Len(sorts) =>
       /\ Len(word_counts') = Len(word_counts)
       /\ \A k \in 1..Len(word_counts) :
            Copies(word_counts', word_counts[k]) =
              Copies(word_counts, word_counts[k])
       /\ SortedBy(word_counts', "wordcount_less")
       /\ SortedBy(word_counts, "wordcount_less") =>
            word_counts' = word_counts]_vars

\* a table of three records filled out of order has been sorted twice in a
\* row: the second call was given the sorted table and left it as it was
C14_Witness ==
  /\ pc = "table"
  /\ calls = <<Bytes("ba"), Bytes("ba"), Bytes("abc"), Bytes("ab")>>
  /\ Len(sorts) = 2
  /\ sorts[1] = <<Rec("ba", 2), Rec("abc", 1), Rec("ab", 1)>>
  /\ sorts[2] = <<Rec("ab", 1), Rec("abc", 1), Rec("ba", 2)>>
  /\ word_counts = sorts[2]

(* C15: on the records of a table wordcount_less is irreflexive and        *)
(* transitive, exactly one of less(A, B) and less(B, A) holds for records  *)
(* of different words, and less(A, B) holds exactly when A's count is the  *)
(* smaller or the counts are equal and A's word is the smaller byte-wise.  *)
C15_StrictTotalOrder ==
  \A a, b \in 1..Len(word_counts) :
    LET A == word_counts[a]
        B == word_counts[b]
    IN  /\ ~wordcount_less(A, A)
        /\ A.word # B.word => (wordcount_less(A, B) <=> ~wordcount_less(B, A))
        /\ wordcount_less(A, B) <=>
             \/ A.count < B.count
             \/ /\ A.count = B.count
                /\ A.word # B.word
                /\ LexLeq(A.word, B.word)
        /\ \A c \in 1..Len(word_counts) :
             (wordcount_less(A, B) /\ wordcount_less(B, word_counts[c]))
               => wordcount_less(A, word_counts[c])

\* a table of three records: two of equal count, one word a prefix of the
\* other, and one of a larger count
C15_Witness ==
  /\ pc = "table"
  /\ Len(word_counts) = 3
  /\ CountOf(word_counts, Bytes("ab")) = 1
  /\ CountOf(word_counts, Bytes("abc")) = 1
  /\ CountOf(word_counts, Bytes("ba")) = 2
  /\ word_counts[1].word = Bytes("abc")

====
